---------------------------- MODULE Spec2Model ----------------------------
(***************************************************************************)
(* Model of the analysis-result pipeline of the bug detector frontend:     *)
(* getConfig / appConfig, analyze, fetchWithTimeout, normalizeResponse,    *)
(* mapFinding, summarize, mockAnalyze and the error mapping helpers.       *)
(*                                                                         *)
(* A JavaScript string that the code inspects character by character       *)
(* (trim, toLowerCase, includes, regular expressions) is a sequence of     *)
(* one-character strings.  A JavaScript value of unknown type (a parsed    *)
(* JSON document, an environment entry) is a record tagged by its type in  *)
(* field k.  Numbers are integers plus NaN and the two infinities;         *)
(* fractions are outside the input domain of the model.                    *)
(***************************************************************************)
EXTENDS Integers, Sequences, FiniteSets

VARIABLES
    env,        \* import.meta.env: [PUBLIC_API_BASE, PUBLIC_BACKEND_URL]
    appConfig,  \* the exported snapshot: getConfig() evaluated at module load
    pc,         \* position of the analyze call: idle, awaitFetch, awaitBody, done
    snippet,    \* argument of the call in progress
    language,   \* argument of the call in progress
    requests,   \* the fetch invocations of the call in progress
    server,     \* what the endpoint is going to do with the request
    timer,      \* the setTimeout of fetchWithTimeout: none, armed, fired, cleared
    elapsed,    \* milliseconds since the call started
    aborted,    \* controller.signal.aborted
    resp,       \* the Response fetch resolved with, or NoResponse
    result,     \* what analyze returned, or NoResult
    fn,         \* pure-function specification: which function is applied
    input,      \* pure-function specification: its argument
    output      \* pure-function specification: its result, or NoResult

vars == <<env, appConfig, pc, snippet, language, requests, server,
          timer, elapsed, aborted, resp, result, fn, input, output>>

callVars == <<env, appConfig, pc, snippet, language, requests, server,
              timer, elapsed, aborted, resp, result>>

pureVars == <<fn, input, output>>

---------------------------------------------------------------------------
(* Bounds of the model. *)

\* Longest array of raw findings in an enumerated payload.
MaxFindings == 2

\* Granularity of the clock, in milliseconds.
TickMs == 5000

\* The clock stops advancing here (milliseconds since the call started).
MaxElapsed == 25000

---------------------------------------------------------------------------
(* JavaScript values. *)

Undef == [k |-> "undefined"]

Null == [k |-> "null"]

NaN == [k |-> "nan"]

PosInf == [k |-> "inf"]

NegInf == [k |-> "ninf"]

Bool(b) == [k |-> "bool", v |-> b]

Num(n) == [k |-> "num", v |-> n]

Str(s) == [k |-> "str", v |-> s]

Arr(a) == [k |-> "arr", v |-> a]

Obj(o) == [k |-> "obj", v |-> o]

EmptyObj == [k |-> "obj", v |-> <<>>]

NoResult == [k |-> "none"]

NoResponse == [k |-> "none"]

\* x == null || x === undefined
Nullish(x) == x.k \in {"undefined", "null"}

\* ToBoolean
Truthy(x) ==
    CASE x.k \in {"undefined", "null", "nan"} -> FALSE
      [] x.k = "bool" -> x.v
      [] x.k = "num" -> x.v # 0
      [] x.k = "str" -> x.v # <<>>
      [] OTHER -> TRUE

\* a ?? b
Coalesce(a, b) == IF Nullish(a) THEN b ELSE a

\* a || b
Or(a, b) == IF Truthy(a) THEN a ELSE b

\* o?.key for the keys the code reads (never a built-in property of a
\* string or an array)
Get(o, key) ==
    IF o.k = "obj" /\ key \in DOMAIN o.v THEN o.v[key] ELSE Undef

IsArray(x) == x.k = "arr"

\* typeof x === 'object' (null included, as in JavaScript)
TypeofObject(x) == x.k \in {"obj", "arr", "null"}

\* Number.isFinite on the result of Number(...)
IsFinite(x) == x.k = "num"

---------------------------------------------------------------------------
(* Strings as sequences of characters. *)

UpperChars ==
    <<"A","B","C","D","E","F","G","H","I","J","K","L","M",
      "N","O","P","Q","R","S","T","U","V","W","X","Y","Z">>

LowerChars ==
    <<"a","b","c","d","e","f","g","h","i","j","k","l","m",
      "n","o","p","q","r","s","t","u","v","w","x","y","z">>

DigitChars == <<"0","1","2","3","4","5","6","7","8","9">>

\* The character U+0060 (grave accent), which a TLA+ string literal cannot hold.
Backtick == "U+0060"

IndexIn(c, chars) == CHOOSE i \in 1..Len(chars) : chars[i] = c

IsIn(c, chars) == \E i \in 1..Len(chars) : chars[i] = c

LowerChar(c) == IF IsIn(c, UpperChars) THEN LowerChars[IndexIn(c, UpperChars)] ELSE c

\* String.prototype.toLowerCase
ToLowerCase(s) == [i \in 1..Len(s) |-> LowerChar(s[i])]

\* \s of a regular expression, and the white space trim removes
IsSpace(c) == c \in {" ", "\t", "\n", "\r"}

\* \w of a regular expression
IsWordChar(c) == IsIn(c, UpperChars) \/ IsIn(c, LowerChars) \/ IsIn(c, DigitChars) \/ c = "_"

RECURSIVE TrimStart(_)
TrimStart(s) ==
    IF s # <<>> /\ IsSpace(Head(s)) THEN TrimStart(Tail(s)) ELSE s

RECURSIVE TrimEnd(_)
TrimEnd(s) ==
    IF s # <<>> /\ IsSpace(s[Len(s)]) THEN TrimEnd(SubSeq(s, 1, Len(s) - 1)) ELSE s

\* String.prototype.trim
Trim(s) == TrimEnd(TrimStart(s))

\* sub occurs in s at position i
MatchAt(s, sub, i) ==
    /\ i >= 1
    /\ i + Len(sub) - 1 <= Len(s)
    /\ \A j \in 1..Len(sub) : s[i + j - 1] = sub[j]

\* String.prototype.includes
Includes(s, sub) == \E i \in 1..(Len(s) + 1) : MatchAt(s, sub, i)

\* Number.prototype.toString of an integer
RECURSIVE NatToStr(_)
NatToStr(n) ==
    IF n < 10 THEN <<DigitChars[n + 1]>>
    ELSE NatToStr(n \div 10) \o <<DigitChars[(n % 10) + 1]>>

IntToStr(n) == IF n < 0 THEN <<"-">> \o NatToStr(-n) ELSE NatToStr(n)

AllDigits(s) == s # <<>> /\ \A i \in 1..Len(s) : IsIn(s[i], DigitChars)

RECURSIVE DigitsToNat(_)
DigitsToNat(s) ==
    IF s = <<>> THEN 0
    ELSE 10 * DigitsToNat(SubSeq(s, 1, Len(s) - 1)) + (IndexIn(s[Len(s)], DigitChars) - 1)

\* StringToNumber on decimal integers and Infinity (the forms the model's
\* inputs use); anything else is NaN
StrToNumber(s) ==
    LET t == Trim(s)
        signed == t # <<>> /\ Head(t) \in {"+", "-"}
        body == IF signed THEN Tail(t) ELSE t
        neg == signed /\ Head(t) = "-"
    IN  CASE t = <<>> -> Num(0)
          [] body = <<"I","n","f","i","n","i","t","y">> -> IF neg THEN NegInf ELSE PosInf
          [] AllDigits(body) -> Num(IF neg THEN 0 - DigitsToNat(body) ELSE DigitsToNat(body))
          [] OTHER -> NaN

RECURSIVE ToString(_)
RECURSIVE JoinComma(_)
\* Array.prototype.join(','): null and undefined elements join as ''
JoinComma(a) ==
    IF a = <<>> THEN <<>>
    ELSE LET h == IF Nullish(Head(a)) THEN <<>> ELSE ToString(Head(a))
         IN  IF Len(a) = 1 THEN h ELSE h \o <<",">> \o JoinComma(Tail(a))

\* String(x)
ToString(x) ==
    CASE x.k = "str" -> x.v
      [] x.k = "num" -> IntToStr(x.v)
      [] x.k = "nan" -> <<"N","a","N">>
      [] x.k = "inf" -> <<"I","n","f","i","n","i","t","y">>
      [] x.k = "ninf" -> <<"-","I","n","f","i","n","i","t","y">>
      [] x.k = "bool" -> IF x.v THEN <<"t","r","u","e">> ELSE <<"f","a","l","s","e">>
      [] x.k = "null" -> <<"n","u","l","l">>
      [] x.k = "undefined" -> <<"u","n","d","e","f","i","n","e","d">>
      [] x.k = "arr" -> JoinComma(x.v)
      [] OTHER -> <<"[","o","b","j","e","c","t"," ","O","b","j","e","c","t","]">>

\* Number(x)
ToNumber(x) ==
    CASE x.k \in {"num", "nan", "inf", "ninf"} -> x
      [] x.k = "undefined" -> NaN
      [] x.k = "null" -> Num(0)
      [] x.k = "bool" -> IF x.v THEN Num(1) ELSE Num(0)
      [] x.k = "str" -> StrToNumber(x.v)
      [] x.k = "arr" -> StrToNumber(JoinComma(x.v))
      [] OTHER -> NaN

---------------------------------------------------------------------------
(* Findings, summaries and the normalizer. *)

\* type Severity, in the order of the `valid` array of mapFinding
Severities == <<<<"i","n","f","o">>, <<"l","o","w">>, <<"m","e","d","i","u","m">>, <<"h","i","g","h">>, <<"c","r","i","t","i","c","a","l">>>>

SeveritySet == {Severities[i] : i \in 1..Len(Severities)}

\* the loop of summarize, for one key of `base`
RECURSIVE CountSeverity(_, _)
CountSeverity(findings, sev) ==
    IF findings = <<>> THEN 0
    ELSE (IF Head(findings).severity = sev THEN 1 ELSE 0) + CountSeverity(Tail(findings), sev)

\* A variant of summarize that forgets the 'critical' bucket.
summarizeDropsCritical(findings) ==
    [total |-> Num(Len(findings)),
     bySeverity |-> [info |-> Num(CountSeverity(findings, <<"i","n","f","o">>)),
                     low |-> Num(CountSeverity(findings, <<"l","o","w">>)),
                     medium |-> Num(CountSeverity(findings, <<"m","e","d","i","u","m">>)),
                     high |-> Num(CountSeverity(findings, <<"h","i","g","h">>)),
                     critical |-> Num(0)]]

summarize(findings) ==
    [total |-> Num(Len(findings)),
     bySeverity |-> [info |-> Num(CountSeverity(findings, <<"i","n","f","o">>)),
                     low |-> Num(CountSeverity(findings, <<"l","o","w">>)),
                     medium |-> Num(CountSeverity(findings, <<"m","e","d","i","u","m">>)),
                     high |-> Num(CountSeverity(findings, <<"h","i","g","h">>)),
                     critical |-> Num(CountSeverity(findings, <<"c","r","i","t","i","c","a","l">>))]]

\* the literal { total: 0, bySeverity: { info: 0, ... } }
ZeroSummary ==
    [total |-> Num(0),
     bySeverity |-> [info |-> Num(0), low |-> Num(0), medium |-> Num(0),
                     high |-> Num(0), critical |-> Num(0)]]

\* The draw-th identifier the random source hands out within one response.
\* Two draws never give the same identifier: a collision of
\* crypto.randomUUID (or of the Math.random/Date.now fallback) is not
\* modelled.
cryptoLikeRandomId(draw) == <<"f","_">> \o NatToStr(draw)

DefaultRecommendation ==
    <<"R","e","v","i","e","w"," ","t","h","e"," ","r","e","l","a","t","e","d"," ","c","o","d","e"," ","a","n","d"," ","a","p","p","l","y"," ","b","e","s","t"," ","p","r","a","c","t","i","c","e","s"," ","t","o"," ","a","d","d","r","e","s","s"," ","t","h","i","s"," ","f","i","n","d","i","n","g",".">>

\* mapFinding(raw); draw numbers the call, for cryptoLikeRandomId
mapFinding(raw, draw) ==
    LET sev == ToLowerCase(ToString(Or(Or(Get(raw, "severity"), Get(raw, "level")), Str(<<"i","n","f","o">>))))
        severity == IF sev \in SeveritySet THEN sev ELSE <<"i","n","f","o">>
        ls == ToNumber(Coalesce(Coalesce(Get(raw, "lineStart"), Get(raw, "line")), Num(1)))
        le == ToNumber(Coalesce(Coalesce(Get(raw, "lineEnd"), Get(raw, "endLine")), ls))
        lsOr1 == IF IsFinite(ls) THEN ls.v ELSE 1
    IN  [id |-> ToString(Coalesce(Coalesce(Coalesce(Get(raw, "id"), Get(raw, "ruleId")),
                                           Get(raw, "rule")),
                                  Str(cryptoLikeRandomId(draw)))),
         title |-> ToString(Coalesce(Coalesce(Get(raw, "title"), Get(raw, "message")),
                                     Str(<<"F","i","n","d","i","n","g">>))),
         description |-> ToString(Coalesce(Coalesce(Coalesce(Get(raw, "description"),
                                                             Get(raw, "detail")),
                                                    Get(raw, "message")),
                                           Str(<<>>))),
         severity |-> severity,
         lineStart |-> IF IsFinite(ls) /\ ls.v > 0 THEN ls.v ELSE 1,
         lineEnd |-> IF IsFinite(le) /\ le.v >= lsOr1 THEN le.v ELSE lsOr1,
         rule |-> ToString(Coalesce(Coalesce(Get(raw, "rule"), Get(raw, "ruleId")),
                                    Str(<<"N","/","A">>))),
         recommendation |-> ToString(Coalesce(Coalesce(Get(raw, "recommendation"),
                                                       Get(raw, "suggestion")),
                                              Str(DefaultRecommendation)))]

\* raws.map(mapFinding)
MapFindings(raws) == [i \in 1..Len(raws) |-> mapFinding(raws[i], i)]

\* the summary of normalizeResponse when payload.summary is a truthy object
TrustedSummary(summary, findings) ==
    LET by == Get(summary, "bySeverity")
    IN  [total |-> ToNumber(Coalesce(Get(summary, "total"), Num(Len(findings)))),
         bySeverity |-> [info |-> ToNumber(Coalesce(Get(by, "info"), Num(0))),
                         low |-> ToNumber(Coalesce(Get(by, "low"), Num(0))),
                         medium |-> ToNumber(Coalesce(Get(by, "medium"), Num(0))),
                         high |-> ToNumber(Coalesce(Get(by, "high"), Num(0))),
                         critical |-> ToNumber(Coalesce(Get(by, "critical"), Num(0)))]]

\* the result of normalizeResponse for a falsy payload
EmptyResponse ==
    [findings |-> <<>>,
     summary |-> ZeroSummary,
     error |-> [message |-> "Empty response received from server"]]

normalizeResponse(payload) ==
    IF ~Truthy(payload) THEN EmptyResponse
    ELSE IF IsArray(Get(payload, "findings")) THEN
        LET findings == MapFindings(Get(payload, "findings").v)
            summary == Get(payload, "summary")
        IN  [findings |-> findings,
             summary |-> IF Truthy(summary) /\ TypeofObject(summary)
                         THEN TrustedSummary(summary, findings)
                         ELSE summarize(findings)]
    ELSE
        LET rawFindings == Or(Or(Or(Get(payload, "issues"), Get(payload, "results")),
                                 Get(payload, "findings")),
                              Arr(<<>>))
            findings == IF IsArray(rawFindings) THEN MapFindings(rawFindings.v) ELSE <<>>
        IN  [findings |-> findings, summary |-> summarize(findings)]

---------------------------------------------------------------------------
(* The demo analyzer. *)

\* position i of s is a word boundary (\b): exactly one of the characters
\* before and at i is a word character
WordBoundary(s, i) ==
    LET before == i > 1 /\ i - 1 <= Len(s) /\ IsWordChar(s[i - 1])
        at == i >= 1 /\ i <= Len(s) /\ IsWordChar(s[i])
    IN  before # at

AllSpace(s, from, to) == \A p \in from..to : IsSpace(s[p])

\* /\beval\s*\(/.test(s)
MatchesEval(s) ==
    \E i \in 1..Len(s) :
        /\ WordBoundary(s, i)
        /\ MatchAt(s, <<"e","v","a","l">>, i)
        /\ \E j \in (i + 4)..Len(s) : AllSpace(s, i + 4, j - 1) /\ s[j] = "("

IsQuote(c) == c \in {"\"", "'", Backtick}

\* what . of a regular expression does not match
IsLineTerminator(c) == c \in {"\n", "\r"}

\* /password\s*=\s*["'`].+["'`]/i.test(s)
MatchesPassword(s) ==
    \E i \in 1..Len(s) :
        /\ MatchAt(ToLowerCase(s), <<"p","a","s","s","w","o","r","d">>, i)
        /\ \E e \in (i + 8)..Len(s) :
            /\ AllSpace(s, i + 8, e - 1)
            /\ s[e] = "="
            /\ \E q \in (e + 1)..Len(s) :
                /\ AllSpace(s, e + 1, q - 1)
                /\ IsQuote(s[q])
                /\ \E c \in (q + 2)..Len(s) :
                    /\ IsQuote(s[c])
                    /\ \A p \in (q + 1)..(c - 1) : ~IsLineTerminator(s[p])

\* /\bvar\b/.test(s)
MatchesVar(s) ==
    \E i \in 1..Len(s) :
        /\ WordBoundary(s, i)
        /\ MatchAt(s, <<"v","a","r">>, i)
        /\ WordBoundary(s, i + 3)

\* the object literals mockAnalyze pushes, before their id is drawn
TodoFinding ==
    [title |-> <<"T","O","D","O"," ","p","r","e","s","e","n","t"," ","i","n"," ","c","o","d","e">>,
     description |-> <<"A"," ","T","O","D","O"," ","c","o","m","m","e","n","t"," ","i","s"," ","p","r","e","s","e","n","t",";"," ","u","n","r","e","s","o","l","v","e","d"," ","t","a","s","k","s"," ","m","a","y"," ","i","n","d","i","c","a","t","e"," ","i","n","c","o","m","p","l","e","t","e"," ","l","o","g","i","c",".">>,
     severity |-> <<"i","n","f","o">>, lineStart |-> 1, lineEnd |-> 1,
     rule |-> <<"s","t","y","l","e","/","t","o","d","o","-","c","o","m","m","e","n","t">>,
     recommendation |-> <<"C","r","e","a","t","e"," ","a","n"," ","i","s","s","u","e"," ","a","n","d"," ","t","r","a","c","k"," ","a"," ","c","l","e","a","r"," ","a","c","t","i","o","n"," ","i","t","e","m"," ","o","r"," ","a","d","d","r","e","s","s"," ","t","h","e"," ","T","O","D","O"," ","b","e","f","o","r","e"," ","r","e","l","e","a","s","e",".">>]

EvalFinding ==
    [title |-> <<"U","s","e"," ","o","f"," ","e","v","a","l"," ","d","e","t","e","c","t","e","d">>,
     description |-> <<"T","h","e"," ","u","s","e"," ","o","f"," ","e","v","a","l"," ","c","a","n"," ","i","n","t","r","o","d","u","c","e"," ","s","e","c","u","r","i","t","y"," ","v","u","l","n","e","r","a","b","i","l","i","t","i","e","s"," ","a","n","d"," ","s","h","o","u","l","d"," ","b","e"," ","a","v","o","i","d","e","d",".">>,
     severity |-> <<"h","i","g","h">>, lineStart |-> 1, lineEnd |-> 1,
     rule |-> <<"s","e","c","u","r","i","t","y","/","n","o","-","e","v","a","l">>,
     recommendation |-> <<"R","e","f","a","c","t","o","r"," ","c","o","d","e"," ","t","o"," ","a","v","o","i","d"," ","e","v","a","l",";"," ","u","s","e"," ","s","a","f","e","r"," ","a","l","t","e","r","n","a","t","i","v","e","s"," ","s","u","c","h"," ","a","s"," ","J","S","O","N"," ","p","a","r","s","i","n","g"," ","o","r"," ","f","u","n","c","t","i","o","n"," ","m","a","p","p","i","n","g","s",".">>]

SecretFinding ==
    [title |-> <<"H","a","r","d","c","o","d","e","d"," ","s","e","c","r","e","t"," ","d","e","t","e","c","t","e","d">>,
     description |-> <<"P","o","t","e","n","t","i","a","l"," ","h","a","r","d","c","o","d","e","d"," ","c","r","e","d","e","n","t","i","a","l"," ","o","r"," ","s","e","c","r","e","t"," ","f","o","u","n","d",".">>,
     severity |-> <<"c","r","i","t","i","c","a","l">>, lineStart |-> 1, lineEnd |-> 1,
     rule |-> <<"s","e","c","u","r","i","t","y","/","n","o","-","h","a","r","d","c","o","d","e","d","-","s","e","c","r","e","t","s">>,
     recommendation |-> <<"R","e","m","o","v","e"," ","s","e","c","r","e","t","s"," ","f","r","o","m"," ","c","o","d","e"," ","a","n","d"," ","l","o","a","d"," ","f","r","o","m"," ","s","e","c","u","r","e"," ","e","n","v","i","r","o","n","m","e","n","t"," ","v","a","r","i","a","b","l","e","s"," ","o","r"," ","a"," ","s","e","c","r","e","t"," ","m","a","n","a","g","e","r",".">>]

VarFinding ==
    [title |-> <<"v","a","r"," ","u","s","a","g","e">>,
     description |-> <<"U","s","e"," ","o","f"," ","v","a","r"," ","c","a","n"," ","l","e","a","d"," ","t","o"," ","u","n","e","x","p","e","c","t","e","d"," ","h","o","i","s","t","i","n","g"," ","b","e","h","a","v","i","o","r",".">>,
     severity |-> <<"l","o","w">>, lineStart |-> 1, lineEnd |-> 1,
     rule |-> <<"s","t","y","l","e","/","n","o","-","v","a","r">>,
     recommendation |-> <<"P","r","e","f","e","r"," ","l","e","t"," ","o","r"," ","c","o","n","s","t"," ","f","o","r"," ","b","l","o","c","k","-","s","c","o","p","e","d"," ","d","e","c","l","a","r","a","t","i","o","n","s",".">>]

NoneFinding ==
    [title |-> <<"N","o"," ","i","s","s","u","e","s"," ","d","e","t","e","c","t","e","d"," ","i","n"," ","m","o","c","k"," ","m","o","d","e">>,
     description |-> <<"M","o","c","k"," ","a","n","a","l","y","s","i","s"," ","d","i","d"," ","n","o","t"," ","f","i","n","d"," ","n","o","t","a","b","l","e"," ","i","s","s","u","e","s","."," ","R","u","n"," ","a","g","a","i","n","s","t"," ","a"," ","c","o","n","n","e","c","t","e","d"," ","b","a","c","k","e","n","d"," ","f","o","r"," ","f","u","l","l"," ","a","n","a","l","y","s","i","s",".">>,
     severity |-> <<"i","n","f","o">>, lineStart |-> 1, lineEnd |-> 1,
     rule |-> <<"m","o","c","k","/","n","o","n","e">>,
     recommendation |-> <<"P","r","o","c","e","e","d",","," ","o","r"," ","i","n","t","e","g","r","a","t","e"," ","w","i","t","h"," ","t","h","e"," ","b","a","c","k","e","n","d"," ","f","o","r"," ","d","e","e","p","e","r"," ","a","n","a","l","y","s","i","s",".">>]

\* a pushed literal with the id drawn for it
WithId(f, draw) ==
    [id |-> cryptoLikeRandomId(draw), title |-> f.title, description |-> f.description,
     severity |-> f.severity, lineStart |-> f.lineStart, lineEnd |-> f.lineEnd,
     rule |-> f.rule, recommendation |-> f.recommendation]

\* A variant of the checks chained with else-if: the first check that fires
\* is the only one reported.
BaseFindingsFirstMatchOnly(snip, lang) ==
    LET trimmed == Trim(snip)
    IN  IF trimmed = <<>> THEN <<>>
        ELSE IF Includes(ToLowerCase(trimmed), <<"t","o","d","o">>) THEN <<TodoFinding>>
        ELSE IF MatchesEval(trimmed) THEN <<EvalFinding>>
        ELSE IF MatchesPassword(trimmed) THEN <<SecretFinding>>
        ELSE IF Includes(ToLowerCase(lang), <<"j","s">>) /\ MatchesVar(trimmed) THEN <<VarFinding>>
        ELSE <<>>

\* baseFindings of mockAnalyze, before the ids are drawn
BaseFindings(snip, lang) ==
    LET trimmed == Trim(snip)
    IN  IF trimmed = <<>> THEN <<>>
        ELSE (IF Includes(ToLowerCase(trimmed), <<"t","o","d","o">>) THEN <<TodoFinding>> ELSE <<>>)
             \o (IF MatchesEval(trimmed) THEN <<EvalFinding>> ELSE <<>>)
             \o (IF MatchesPassword(trimmed) THEN <<SecretFinding>> ELSE <<>>)
             \o (IF Includes(ToLowerCase(lang), <<"j","s">>) /\ MatchesVar(trimmed)
                 THEN <<VarFinding>> ELSE <<>>)

mockAnalyze(snip, lang) ==
    LET base == BaseFindings(snip, lang)
        pushed == IF base # <<>> THEN base ELSE <<NoneFinding>>
        findings == [i \in 1..Len(pushed) |-> WithId(pushed[i], i)]
    IN  [findings |-> findings, summary |-> summarize(findings)]

---------------------------------------------------------------------------
(* Configuration. *)

\* chosen.replace(/\/+$/, '')
RECURSIVE StripTrailingSlashes(_)
StripTrailingSlashes(s) ==
    IF s # <<>> /\ s[Len(s)] = "/" THEN StripTrailingSlashes(SubSeq(s, 1, Len(s) - 1)) ELSE s

\* x?.trim()
OptionalTrim(x) == IF Nullish(x) THEN Undef ELSE Str(Trim(x.v))

getConfig(e) ==
    LET apiBaseRaw == OptionalTrim(e.PUBLIC_API_BASE)
        backendUrlRaw == OptionalTrim(e.PUBLIC_BACKEND_URL)
        chosen == Or(Or(apiBaseRaw, backendUrlRaw), Str(<<>>))
        normalized == StripTrailingSlashes(chosen.v)
        connected == Len(normalized) > 0
    IN  [apiBase |-> IF connected THEN Str(normalized) ELSE Null,
         mode |-> IF connected THEN "connected" ELSE "demo",
         isDemo |-> ~connected]

---------------------------------------------------------------------------
(* Inputs of the pure functions. *)

\* an object holding the keys of f whose value is not undefined
MkObj(f) == Obj([key \in {x \in DOMAIN f : f[x] # Undef} |-> f[key]])

LineStartValues ==
    {Undef, Null, Num(0), Num(-2), Num(5), Num(7), Str(<<"x">>), Str(<<"3">>), PosInf}

LineValues == {Undef, Num(0), Num(2), Str(<<"x">>)}

\* raw findings that differ in their line fields
LineRaws ==
    {MkObj([lineStart |-> a, line |-> b, lineEnd |-> c, endLine |-> d]) :
        a \in LineStartValues, b \in LineValues, c \in LineStartValues, d \in LineValues}

\* raw findings that differ in their identity and severity fields
IdRaws ==
    {MkObj([id |-> a, ruleId |-> b, rule |-> c, severity |-> d, level |-> e]) :
        a \in {Undef, Null, Str(<<"a">>), Num(7)},
        b \in {Undef, Str(<<"b">>)},
        c \in {Undef, Str(<<"a">>)},
        d \in {Undef, Str(<<"H","I","G","H">>), Str(<<"W","A","R","N">>), Str(<<>>), Num(3)},
        e \in {Undef, Str(<<"C","r","i","t","i","c","a","l">>)}}

\* raw findings that differ in their text fields
TextRaws ==
    {MkObj([title |-> a, message |-> b, description |-> c, detail |-> d,
            recommendation |-> e, suggestion |-> f]) :
        a \in {Undef, Str(<<"t">>)}, b \in {Undef, Str(<<"m">>)}, c \in {Undef, Str(<<"d">>)},
        d \in {Undef, Str(<<"e">>)}, e \in {Undef, Str(<<"r">>)}, f \in {Undef, Str(<<"s">>)}}

\* elements of a findings array that are no objects
OddRaws == {Null, Str(<<"x">>), Num(3), Arr(<<>>)}

MapInputs == LineRaws \cup IdRaws \cup TextRaws \cup OddRaws

\* the raw findings the enumerated payloads are built from
PayloadRaws ==
    {MkObj([id |-> Str(<<"a">>), severity |-> Str(<<"h","i","g","h">>)]),
     MkObj([rule |-> Str(<<"a">>), severity |-> Str(<<"l","o","w">>)]),
     MkObj([ruleId |-> Str(<<"b">>), level |-> Str(<<"C","R","I","T","I","C","A","L">>)]),
     EmptyObj,
     MkObj([severity |-> Str(<<"W","A","R","N">>), lineStart |-> Num(5)]),
     Null}

SeqsUpTo(S, n) == UNION {[1..m -> S] : m \in 0..n}

PayloadSummaries ==
    {Undef, Null, Num(3), Str(<<"x">>), EmptyObj, Arr(<<>>),
     MkObj([total |-> Num(9)]),
     MkObj([total |-> Str(<<"2">>),
            bySeverity |-> MkObj([info |-> Num(1), high |-> Str(<<"x">>)])])}

ObjectPayloads ==
    {MkObj([findings |-> a, summary |-> b, issues |-> c, results |-> d]) :
        a \in {Undef, Null, Str(<<"x">>)} \cup {Arr(s) : s \in SeqsUpTo(PayloadRaws, MaxFindings)},
        b \in PayloadSummaries,
        c \in {Undef, Str(<<"x">>), Arr(<<>>), Arr(<<MkObj([id |-> Str(<<"a">>)])>>)},
        d \in {Undef, Arr(<<MkObj([rule |-> Str(<<"a">>), level |-> Str(<<"c","r","i","t","i","c","a","l">>)]),
                           MkObj([rule |-> Str(<<"a">>)])>>)}}

OddPayloads ==
    {Undef, Null, Num(0), Num(5), Str(<<>>), Str(<<"O","K">>), Bool(FALSE), Bool(TRUE), NaN,
     Arr(<<EmptyObj>>)}

NormalizeInputs == ObjectPayloads \cup OddPayloads

\* snippets handed to the demo analyzer
DemoSnippets ==
    << <<>>,
       <<" "," "," ">>,
       <<" ","\n","\t">>,
       <<"x"," ","="," ","1">>,
       <<"/","/"," ","T","O","D","O"," ","f","i","x"," ","t","h","i","s">>,
       <<"T","o","D","o">>,
       <<"e","v","a","l","(","x",")">>,
       <<"e","v","a","l"," ","\n"," ","(","x",")">>,
       <<"e","v","a","l","u","a","t","e","(","x",")">>,
       <<"m","y","e","v","a","l","(","x",")">>,
       <<"a",".","e","v","a","l","(","1",")">>,
       <<"e","v","a","l">>,
       <<"p","a","s","s","w","o","r","d"," ","="," ","\"","a","b","c","1","2","3","\"">>,
       <<"P","a","s","s","W","o","r","d","=","'","x","'">>,
       <<"p","a","s","s","w","o","r","d"," ","="," ","\"","\"">>,
       <<"p","a","s","s","w","o","r","d"," ","="," ","\"","a","\n","b","'">>,
       <<"p","a","s","s","w","o","r","d",":"," ",Backtick,"x",Backtick>>,
       <<"v","a","r"," ","x">>,
       <<"v","a","r","i","a","b","l","e">>,
       <<"x","=","v","a","r">>,
       <<" ","v","a","r"," ","x"," ","="," ","e","v","a","l","(","\"","t","o","d","o","\"",")",";"," ","p","a","s","s","w","o","r","d","=",Backtick,"p",Backtick," ">>,
       <<"l","e","t"," ","t","o","d","o",";"," ","e","v","a","l","(","p","a","s","s","w","o","r","d"," ","="," ","'","x","'",")">> >>

DemoLanguages ==
    {<<"j","a","v","a","s","c","r","i","p","t">>, <<"j","s">>, <<"N","o","d","e","J","S">>, <<"p","y","t","h","o","n">>, <<>>}

MockInputs ==
    {[snip |-> DemoSnippets[i], lang |-> l] : i \in 1..Len(DemoSnippets), l \in DemoLanguages}

---------------------------------------------------------------------------
(* The remote client: errors, bodies, status mapping. *)

\* the timeoutMs analyze passes to fetchWithTimeout
TimeoutMs == 15000

\* An HTTP body is a document: the JSON text of a value (k = "json", v the
\* value JSON.parse gives for it) or a text that is no JSON (k = "text").
JsonDoc(value) == [k |-> "json", v |-> value]

TextDoc(chars) == [k |-> "text", v |-> chars]

\* what a rejected promise or a throw carries
AbortError ==
    [name |-> "AbortError", message |-> "The user aborted a request.", stack |-> <<>>]

FetchTypeError ==
    [name |-> "TypeError", message |-> "Failed to fetch",
     stack |-> <<"TypeError: Failed to fetch", "    at fetchWithTimeout", "    at analyze",
                 "    at HTMLFormElement.onSubmit">>]

JsonSyntaxError ==
    [name |-> "SyntaxError", message |-> "Unexpected token in JSON",
     stack |-> <<"SyntaxError: Unexpected token in JSON", "    at analyze">>]

\* String(stack).split('\n').slice(0, 3).join('\n'), the stack kept as its lines
FirstLines(lines) == SubSeq(lines, 1, IF Len(lines) < 3 THEN Len(lines) ELSE 3)

\* processErrorDetails for an error object (a falsy stack stays undefined)
processErrorDetails(err) ==
    [name |-> err.name,
     message |-> err.message,
     stack |-> IF err.stack # <<>> THEN FirstLines(err.stack) ELSE <<>>]

\* Response.ok
IsOk(status) == status >= 200 /\ status <= 299

\* A variant of mapHttpErrorMessage whose server-error range starts after 500.
mapHttpErrorMessageOffByOne(status) ==
    CASE status = 400 -> <<"I","n","v","a","l","i","d"," ","r","e","q","u","e","s","t","."," ","P","l","e","a","s","e"," ","c","h","e","c","k"," ","y","o","u","r"," ","i","n","p","u","t"," ","a","n","d"," ","t","r","y"," ","a","g","a","i","n",".">>
      [] status = 401 -> <<"U","n","a","u","t","h","o","r","i","z","e","d","."," ","P","l","e","a","s","e"," ","c","h","e","c","k"," ","y","o","u","r"," ","c","r","e","d","e","n","t","i","a","l","s"," ","o","r"," ","A","P","I"," ","a","c","c","e","s","s",".">>
      [] status = 403 -> <<"F","o","r","b","i","d","d","e","n","."," ","Y","o","u","r"," ","a","c","c","o","u","n","t"," ","d","o","e","s"," ","n","o","t"," ","h","a","v","e"," ","a","c","c","e","s","s"," ","t","o"," ","t","h","i","s"," ","r","e","s","o","u","r","c","e",".">>
      [] status = 404 -> <<"S","e","r","v","i","c","e"," ","e","n","d","p","o","i","n","t"," ","n","o","t"," ","f","o","u","n","d","."," ","P","l","e","a","s","e"," ","v","e","r","i","f","y"," ","t","h","e"," ","A","P","I"," ","b","a","s","e"," ","U","R","L",".">>
      [] status = 408 -> <<"R","e","q","u","e","s","t"," ","t","i","m","e","o","u","t","."," ","P","l","e","a","s","e"," ","t","r","y"," ","a","g","a","i","n",".">>
      [] status > 500 /\ status < 600 -> <<"S","e","r","v","e","r"," ","e","r","r","o","r"," ","w","h","i","l","e"," ","a","n","a","l","y","z","i","n","g"," ","c","o","d","e","."," ","P","l","e","a","s","e"," ","t","r","y"," ","a","g","a","i","n"," ","l","a","t","e","r",".">>
      [] OTHER -> <<"U","n","e","x","p","e","c","t","e","d"," ","e","r","r","o","r"," ","(","H","T","T","P"," ">> \o IntToStr(status) \o <<")",".">>

mapHttpErrorMessage(status) ==
    CASE status = 400 -> <<"I","n","v","a","l","i","d"," ","r","e","q","u","e","s","t","."," ","P","l","e","a","s","e"," ","c","h","e","c","k"," ","y","o","u","r"," ","i","n","p","u","t"," ","a","n","d"," ","t","r","y"," ","a","g","a","i","n",".">>
      [] status = 401 -> <<"U","n","a","u","t","h","o","r","i","z","e","d","."," ","P","l","e","a","s","e"," ","c","h","e","c","k"," ","y","o","u","r"," ","c","r","e","d","e","n","t","i","a","l","s"," ","o","r"," ","A","P","I"," ","a","c","c","e","s","s",".">>
      [] status = 403 -> <<"F","o","r","b","i","d","d","e","n","."," ","Y","o","u","r"," ","a","c","c","o","u","n","t"," ","d","o","e","s"," ","n","o","t"," ","h","a","v","e"," ","a","c","c","e","s","s"," ","t","o"," ","t","h","i","s"," ","r","e","s","o","u","r","c","e",".">>
      [] status = 404 -> <<"S","e","r","v","i","c","e"," ","e","n","d","p","o","i","n","t"," ","n","o","t"," ","f","o","u","n","d","."," ","P","l","e","a","s","e"," ","v","e","r","i","f","y"," ","t","h","e"," ","A","P","I"," ","b","a","s","e"," ","U","R","L",".">>
      [] status = 408 -> <<"R","e","q","u","e","s","t"," ","t","i","m","e","o","u","t","."," ","P","l","e","a","s","e"," ","t","r","y"," ","a","g","a","i","n",".">>
      [] status >= 500 /\ status < 600 -> <<"S","e","r","v","e","r"," ","e","r","r","o","r"," ","w","h","i","l","e"," ","a","n","a","l","y","z","i","n","g"," ","c","o","d","e","."," ","P","l","e","a","s","e"," ","t","r","y"," ","a","g","a","i","n"," ","l","a","t","e","r",".">>
      [] OTHER -> <<"U","n","e","x","p","e","c","t","e","d"," ","e","r","r","o","r"," ","(","H","T","T","P"," ">> \o IntToStr(status) \o <<")",".">>

\* A variant of the non-success return that normalizes the server's error
\* body and attaches the error to it.
HttpErrorResponseKeepsBody(status, serverErr) ==
    LET kept == normalizeResponse(serverErr)
    IN  [findings |-> kept.findings,
         summary |-> kept.summary,
         error |-> [message |-> mapHttpErrorMessage(status),
                    status |-> status,
                    details |-> serverErr]]

\* the return of analyze for a response that is not ok
HttpErrorResponse(status, serverErr) ==
    [findings |-> <<>>,
     summary |-> ZeroSummary,
     error |-> [message |-> mapHttpErrorMessage(status),
                status |-> status,
                details |-> serverErr]]

\* A variant of the abort test that looks for the name AbortSignal.timeout gives.
IsAbortExpectsTimeoutError(err) == err.name = "TimeoutError"

\* err?.name === 'AbortError'
IsAbort(err) == err.name = "AbortError"

\* the return of the catch block of analyze
CatchResponse(err) ==
    [findings |-> <<>>,
     summary |-> ZeroSummary,
     error |-> [message |-> IF IsAbort(err)
                            THEN <<"R","e","q","u","e","s","t"," ","t","i","m","e","d"," ","o","u","t","."," ","P","l","e","a","s","e"," ","t","r","y"," ","a","g","a","i","n",".">>
                            ELSE <<"N","e","t","w","o","r","k"," ","e","r","r","o","r"," ","o","c","c","u","r","r","e","d"," ","w","h","i","l","e"," ","c","o","n","t","a","c","t","i","n","g"," ","t","h","e"," ","a","n","a","l","y","s","i","s"," ","s","e","r","v","i","c","e",".">>,
                code |-> IF IsAbort(err) THEN "TIMEOUT" ELSE "NETWORK_ERROR",
                details |-> processErrorDetails(err)]]

\* contentType.includes('application/json'), contentType being
\* resp.headers.get('content-type') || ''
IsJson(contentType) == Includes(Or(contentType, Str(<<>>)).v, <<"a","p","p","l","i","c","a","t","i","o","n","/","j","s","o","n">>)

\* JSON.parse (and Response.json) succeeds on the document
Parses(doc) == doc.k = "json"

\* the string Response.text gives: the characters of a text that is no
\* JSON, and the document itself for a JSON text
TextOf(doc) == IF doc.k = "text" THEN Str(doc.v) ELSE doc

safeParseTextAsJson(text) ==
    IF Parses(text) THEN text.v
    ELSE MkObj([findings |-> Arr(<<>>), raw |-> TextOf(text)])

\* analyze from the point where the body of a response that is not ok has
\* been read (body) or the read has failed (body = Undef)
ErrorBodyResult(status, contentType, body) ==
    LET serverErr ==
            IF body = Undef THEN Undef
            ELSE IF IsJson(contentType) THEN (IF Parses(body) THEN body.v ELSE Undef)
            ELSE TextOf(body)
    IN  HttpErrorResponse(status, serverErr)

\* analyze from the point where the body of an ok response has been read
SuccessBodyResult(contentType, body) ==
    IF IsJson(contentType)
    THEN (IF Parses(body) THEN normalizeResponse(body.v) ELSE CatchResponse(JsonSyntaxError))
    ELSE normalizeResponse(safeParseTextAsJson(body))

---------------------------------------------------------------------------
(* Inputs of analyze and behaviours of the endpoint. *)

EnvApiBases == {Undef, Str(<<" ">>), Str(<<"/">>), Str(<<" ","h","t","t","p",":","/","/","a","/"," ">>)}

EnvBackendUrls == {Undef, Str(<<"h","t","t","p",":","/","/","b","/","/">>)}

Envs ==
    {[PUBLIC_API_BASE |-> a, PUBLIC_BACKEND_URL |-> b] : a \in EnvApiBases, b \in EnvBackendUrls}

\* environments the running process is switched to after start-up
LaterEnvs ==
    {[PUBLIC_API_BASE |-> Undef, PUBLIC_BACKEND_URL |-> Undef],
     [PUBLIC_API_BASE |-> Str(<<"h","t","t","p",":","/","/","c">>), PUBLIC_BACKEND_URL |-> Undef]}

CallSnippets == {<<>>, <<"/","/"," ","T","O","D","O"," ","f","i","x"," ","t","h","i","s">>, <<"v","a","r"," ","x"," ","="," ","e","v","a","l","(","y",")">>}

CallLanguages == {<<"j","s">>, <<"p","y","t","h","o","n">>}

\* silent: never answers; refuse: the connection fails; hang: sends the
\* status line and headers and never completes the body; error: sends the
\* headers and the body stream fails; full: sends headers and body
ServerBehaviours == {"silent", "refuse", "hang", "error", "full"}

Statuses == {200, 204, 302, 400, 401, 403, 404, 408, 418, 500, 599}

ContentTypes ==
    {Null, Str(<<"a","p","p","l","i","c","a","t","i","o","n","/","j","s","o","n">>), Str(<<"a","p","p","l","i","c","a","t","i","o","n","/","j","s","o","n",";"," ","c","h","a","r","s","e","t","=","u","t","f","-","8">>),
     Str(<<"t","e","x","t","/","p","l","a","i","n">>), Str(<<"A","p","p","l","i","c","a","t","i","o","n","/","J","S","O","N">>)}

Bodies ==
    {TextDoc(<<>>),
     TextDoc(<<"O","K">>),
     JsonDoc(Null),
     JsonDoc(Num(0)),
     JsonDoc(Bool(FALSE)),
     JsonDoc(Str(<<>>)),
     JsonDoc(Str(<<"O","K">>)),
     JsonDoc(EmptyObj),
     JsonDoc(MkObj([error |-> Str(<<"b","a","d">>)])),
     JsonDoc(MkObj([findings |-> Arr(<<MkObj([rule |-> Str(<<"r">>), severity |-> Str(<<"H","i","g","h">>)]),
                                       MkObj([rule |-> Str(<<"r">>), lineStart |-> Num(0)])>>)])),
     JsonDoc(MkObj([findings |-> Arr(<<MkObj([level |-> Str(<<"c","r","i","t","i","c","a","l">>)])>>),
                    summary |-> MkObj([total |-> Num(9)])])),
     JsonDoc(MkObj([issues |-> Arr(<<MkObj([id |-> Num(1), severity |-> Str(<<"l","o","w">>)])>>)])),
     JsonDoc(MkObj([results |-> Str(<<"n","o","n","e">>)]))}

BodyPending == [k |-> "pending"]

BodyFailed == [k |-> "failed"]

---------------------------------------------------------------------------
(* analyze as a state machine: one action per stretch of code between two
   awaits, the timer callback, and the endpoint's and the clock's steps. *)

\* A variant of the configuration read that resolves the environment again
\* on every call.
ConfigReResolved == getConfig(env)

\* const { apiBase, isDemo } = appConfig
Config == appConfig

\* the arguments analyze hands to fetch
Request(apiBase, snip, lang) ==
    [method |-> "POST",
     url |-> apiBase \o <<"/","a","n","a","l","y","z","e">>,
     contentType |-> <<"a","p","p","l","i","c","a","t","i","o","n","/","j","s","o","n">>,
     body |-> JsonDoc(MkObj([snippet |-> Str(snip), language |-> Str(lang)]))]

NoCall ==
    /\ pc = "idle" /\ snippet = <<>> /\ language = <<>> /\ requests = <<>>
    /\ server = "none" /\ timer = "none" /\ elapsed = 0 /\ aborted = FALSE
    /\ resp = NoResponse /\ result = NoResult

NoPure == fn = "none" /\ input = NoResult /\ output = NoResult

\* module load: appConfig = getConfig()
Init ==
    /\ env \in Envs
    /\ appConfig = getConfig(env)
    /\ NoCall
    /\ NoPure

\* analyze(snip, lang) up to its return (demo) or its first await
\* (connected: setTimeout and fetch inside fetchWithTimeout)
Analyze(snip, lang) ==
    /\ pc = "idle"
    /\ snippet' = snip
    /\ language' = lang
    /\ elapsed' = 0
    /\ aborted' = FALSE
    /\ resp' = NoResponse
    /\ IF ~Truthy(Config.apiBase) \/ Config.isDemo
       THEN /\ result' = mockAnalyze(snip, lang)
            /\ pc' = "done"
            /\ UNCHANGED <<requests, server, timer>>
       ELSE /\ requests' = Append(requests, Request(Config.apiBase.v, snip, lang))
            /\ timer' = "armed"
            /\ server' \in ServerBehaviours
            /\ pc' = "awaitFetch"
            /\ UNCHANGED result
    /\ UNCHANGED <<env, appConfig>> /\ UNCHANGED pureVars

\* fetch resolves; finally { clearTimeout }; analyze reads the headers and
\* starts reading the body (resp.json() or resp.text())
FetchRespond ==
    /\ pc = "awaitFetch"
    /\ server \in {"hang", "error", "full"}
    /\ \E status \in Statuses, contentType \in ContentTypes :
        resp' = [status |-> status, contentType |-> contentType, body |-> BodyPending]
    /\ timer' = "cleared"
    /\ pc' = "awaitBody"
    /\ UNCHANGED <<env, appConfig, snippet, language, requests, server, elapsed, aborted, result>>
    /\ UNCHANGED pureVars

\* fetch rejects for a transport failure; finally { clearTimeout }; catch
FetchReject ==
    /\ pc = "awaitFetch"
    /\ server = "refuse"
    /\ timer' = "cleared"
    /\ result' = CatchResponse(FetchTypeError)
    /\ pc' = "done"
    /\ UNCHANGED <<env, appConfig, snippet, language, requests, server, elapsed, aborted, resp>>
    /\ UNCHANGED pureVars

\* the body arrives in full and analyze runs to its return
BodyDeliver ==
    /\ pc = "awaitBody"
    /\ server = "full"
    /\ \E body \in Bodies :
        /\ resp' = [resp EXCEPT !.body = body]
        /\ result' = IF IsOk(resp.status)
                     THEN SuccessBodyResult(resp.contentType, body)
                     ELSE ErrorBodyResult(resp.status, resp.contentType, body)
    /\ pc' = "done"
    /\ UNCHANGED <<env, appConfig, snippet, language, requests, server, timer, elapsed, aborted>>
    /\ UNCHANGED pureVars

\* the body stream fails: the read rejects with a TypeError, which the
\* inner try swallows for a response that is not ok and the outer catch
\* takes otherwise
BodyError ==
    /\ pc = "awaitBody"
    /\ server = "error"
    /\ resp' = [resp EXCEPT !.body = BodyFailed]
    /\ result' = IF IsOk(resp.status)
                 THEN CatchResponse(FetchTypeError)
                 ELSE ErrorBodyResult(resp.status, resp.contentType, Undef)
    /\ pc' = "done"
    /\ UNCHANGED <<env, appConfig, snippet, language, requests, server, timer, elapsed, aborted>>
    /\ UNCHANGED pureVars

\* the setTimeout callback: controller.abort().  A pending fetch rejects
\* with an AbortError and analyze runs its catch block; a pending body read
\* rejects the same way.
TimerFire ==
    /\ timer = "armed"
    /\ elapsed >= TimeoutMs
    /\ timer' = "fired"
    /\ aborted' = TRUE
    /\ IF pc = "awaitFetch"
       THEN /\ result' = CatchResponse(AbortError)
            /\ pc' = "done"
            /\ UNCHANGED resp
       ELSE IF pc = "awaitBody"
       THEN /\ resp' = [resp EXCEPT !.body = BodyFailed]
            /\ result' = IF IsOk(resp.status)
                         THEN CatchResponse(AbortError)
                         ELSE ErrorBodyResult(resp.status, resp.contentType, Undef)
            /\ pc' = "done"
       ELSE UNCHANGED <<pc, resp, result>>
    /\ UNCHANGED <<env, appConfig, snippet, language, requests, server, elapsed>>
    /\ UNCHANGED pureVars

\* time passes while the call is suspended
Tick ==
    /\ pc \in {"awaitFetch", "awaitBody"}
    /\ elapsed + TickMs <= MaxElapsed
    /\ elapsed' = elapsed + TickMs
    /\ UNCHANGED <<env, appConfig, pc, snippet, language, requests, server, timer, aborted,
                   resp, result>>
    /\ UNCHANGED pureVars

\* the caller takes the result; the next call starts from scratch
Return ==
    /\ pc = "done"
    /\ pc' = "idle" /\ snippet' = <<>> /\ language' = <<>> /\ requests' = <<>>
    /\ server' = "none" /\ timer' = "none" /\ elapsed' = 0 /\ aborted' = FALSE
    /\ resp' = NoResponse /\ result' = NoResult
    /\ UNCHANGED <<env, appConfig>> /\ UNCHANGED pureVars

\* the environment changes under the running process
EnvChange ==
    /\ env' \in LaterEnvs \ {env}
    /\ UNCHANGED <<appConfig, pc, snippet, language, requests, server, timer, elapsed, aborted,
                   resp, result>>
    /\ UNCHANGED pureVars

Next ==
    \/ \E snip \in CallSnippets, lang \in CallLanguages : Analyze(snip, lang)
    \/ FetchRespond
    \/ FetchReject
    \/ BodyDeliver
    \/ BodyError
    \/ TimerFire
    \/ Tick
    \/ Return
    \/ EnvChange

Spec == Init /\ [][Next]_vars

\* The event loop runs a due timer callback, the clock advances, and an
\* endpoint that is going to answer does answer.
Fairness ==
    /\ WF_vars(Tick)
    /\ WF_vars(TimerFire)
    /\ WF_vars(FetchRespond)
    /\ WF_vars(FetchReject)
    /\ WF_vars(BodyDeliver)
    /\ WF_vars(BodyError)

FairSpec == Spec /\ Fairness

---------------------------------------------------------------------------
(* The pure functions applied to enumerated inputs. *)

IdleEnv == [PUBLIC_API_BASE |-> Undef, PUBLIC_BACKEND_URL |-> Undef]

PureInit ==
    /\ env = IdleEnv
    /\ appConfig = getConfig(IdleEnv)
    /\ NoCall
    /\ output = NoResult
    /\ \/ fn = "mapFinding" /\ input \in MapInputs
       \/ fn = "normalizeResponse" /\ input \in NormalizeInputs
       \/ fn = "mockAnalyze" /\ input \in MockInputs

ApplyMapFinding ==
    /\ fn = "mapFinding" /\ output = NoResult
    /\ output' = mapFinding(input, 1)
    /\ UNCHANGED <<fn, input>> /\ UNCHANGED callVars

ApplyNormalizeResponse ==
    /\ fn = "normalizeResponse" /\ output = NoResult
    /\ output' = normalizeResponse(input)
    /\ UNCHANGED <<fn, input>> /\ UNCHANGED callVars

ApplyMockAnalyze ==
    /\ fn = "mockAnalyze" /\ output = NoResult
    /\ output' = mockAnalyze(input.snip, input.lang)
    /\ UNCHANGED <<fn, input>> /\ UNCHANGED callVars

PureNext == ApplyMapFinding \/ ApplyNormalizeResponse \/ ApplyMockAnalyze

PureSpec == PureInit /\ [][PureNext]_vars

---------------------------------------------------------------------------
(* Properties of analyze (Spec, FairSpec). *)

HasError(r) == "error" \in DOMAIN r

Pending == pc \in {"awaitFetch", "awaitBody"}

Returned == pc = "done"

AllZero(summary) ==
    /\ summary.total = Num(0)
    /\ summary.bySeverity.info = Num(0)
    /\ summary.bySeverity.low = Num(0)
    /\ summary.bySeverity.medium = Num(0)
    /\ summary.bySeverity.high = Num(0)
    /\ summary.bySeverity.critical = Num(0)

\* C1: every result of analyze (demo, transport failure, timeout, response
\* that is not ok, ok response through normalizeResponse) that carries an
\* error has no findings and an all-zero summary.
C1_ErrorMeansEmpty ==
    (Returned /\ HasError(result)) =>
        /\ result.findings = <<>>
        /\ AllZero(result.summary)

\* an error response whose JSON body holds findings has been mapped to an
\* error result
C1_Witness ==
    /\ Returned
    /\ HasError(result)
    /\ "status" \in DOMAIN result.error
    /\ resp.body.k = "json"
    /\ IsJson(resp.contentType)
    /\ IsArray(Get(resp.body.v, "findings"))

\* C2: a request the endpoint never answers is aborted by the 15000 ms
\* timer, and analyze then returns the TIMEOUT error with its fixed message.
C2_SilentEndpointTimesOut ==
    (pc = "awaitFetch" /\ server = "silent") ~>
        (/\ Returned
         /\ aborted
         /\ HasError(result)
         /\ "code" \in DOMAIN result.error
         /\ result.error.code = "TIMEOUT"
         /\ result.error.message = <<"R","e","q","u","e","s","t"," ","t","i","m","e","d"," ","o","u","t","."," ","P","l","e","a","s","e"," ","t","r","y"," ","a","g","a","i","n",".">>)

C2_Witness ==
    /\ Returned
    /\ server = "silent"
    /\ aborted
    /\ elapsed >= 15000
    /\ HasError(result)
    /\ "code" \in DOMAIN result.error
    /\ result.error.code = "TIMEOUT"

\* C3: the 15000 ms bound covers the whole request, so every connected call
\* that is suspended (waiting for the response or for its body) eventually
\* returns.
C3_EveryCallReturns == Pending ~> Returned

\* the fixed messages of C4, by status
C4_Message(s) ==
    CASE s = 400 -> <<"I","n","v","a","l","i","d"," ","r","e","q","u","e","s","t","."," ","P","l","e","a","s","e"," ","c","h","e","c","k"," ","y","o","u","r"," ","i","n","p","u","t"," ","a","n","d"," ","t","r","y"," ","a","g","a","i","n",".">>
      [] s = 401 -> <<"U","n","a","u","t","h","o","r","i","z","e","d","."," ","P","l","e","a","s","e"," ","c","h","e","c","k"," ","y","o","u","r"," ","c","r","e","d","e","n","t","i","a","l","s"," ","o","r"," ","A","P","I"," ","a","c","c","e","s","s",".">>
      [] s = 403 -> <<"F","o","r","b","i","d","d","e","n","."," ","Y","o","u","r"," ","a","c","c","o","u","n","t"," ","d","o","e","s"," ","n","o","t"," ","h","a","v","e"," ","a","c","c","e","s","s"," ","t","o"," ","t","h","i","s"," ","r","e","s","o","u","r","c","e",".">>
      [] s = 404 -> <<"S","e","r","v","i","c","e"," ","e","n","d","p","o","i","n","t"," ","n","o","t"," ","f","o","u","n","d","."," ","P","l","e","a","s","e"," ","v","e","r","i","f","y"," ","t","h","e"," ","A","P","I"," ","b","a","s","e"," ","U","R","L",".">>
      [] s = 408 -> <<"R","e","q","u","e","s","t"," ","t","i","m","e","o","u","t","."," ","P","l","e","a","s","e"," ","t","r","y"," ","a","g","a","i","n",".">>
      [] s \in 500..599 -> <<"S","e","r","v","e","r"," ","e","r","r","o","r"," ","w","h","i","l","e"," ","a","n","a","l","y","z","i","n","g"," ","c","o","d","e","."," ","P","l","e","a","s","e"," ","t","r","y"," ","a","g","a","i","n"," ","l","a","t","e","r",".">>
      [] OTHER -> <<"U","n","e","x","p","e","c","t","e","d"," ","e","r","r","o","r"," ","(","H","T","T","P"," ">> \o NatToStr(s) \o <<")",".">>

\* the error body could not be read, or was declared JSON and did not parse
C4_BodyUnusable ==
    \/ resp.body = BodyFailed
    \/ IsJson(resp.contentType) /\ resp.body.k = "text"

\* C4: a returned call whose response had a status outside 200..299 carries
\* an error with that status and the message the status alone selects; an
\* error body that cannot be read or parsed only leaves details undefined.
C4_HttpErrorByStatus ==
    (Returned /\ resp # NoResponse /\ resp.status \notin 200..299) =>
        /\ HasError(result)
        /\ DOMAIN result.error = {"message", "status", "details"}
        /\ result.error.status = resp.status
        /\ result.error.message = C4_Message(resp.status)
        /\ C4_BodyUnusable => result.error.details = Undef

\* a 500 whose body, declared JSON, does not parse
C4_Witness ==
    /\ Returned
    /\ resp # NoResponse
    /\ resp.status = 500
    /\ IsJson(resp.contentType)
    /\ resp.body.k = "text"
    /\ HasError(result)
    /\ result.error.details = Undef

\* the value C5 expects the normalizer to be given
C5_Parsed(body) ==
    IF body.k = "json" THEN body.v
    ELSE MkObj([findings |-> Arr(<<>>), raw |-> Str(body.v)])

\* C5: a returned call whose response had a status in 200..299 and whose
\* body was delivered carries the normalizer's result on the parsed body
\* (for a body that parses, or a content type that is not JSON), and a
\* NETWORK_ERROR is returned only when the transport failed.
C5_SuccessIsNormalized ==
    /\ (/\ Returned /\ resp # NoResponse /\ resp.status \in 200..299
        /\ resp.body.k \in {"json", "text"}
        /\ (resp.body.k = "json" \/ ~IsJson(resp.contentType)))
       => result = normalizeResponse(C5_Parsed(resp.body))
    /\ (/\ Returned /\ HasError(result) /\ "code" \in DOMAIN result.error
        /\ result.error.code = "NETWORK_ERROR")
       => (resp = NoResponse \/ resp.body = BodyFailed)

\* C10: a call issues at most one request, as the start-up snapshot
\* decides: none in demo mode, where it returns without suspending and
\* without an error, and exactly one POST to {apiBase}/analyze in connected
\* mode; an error result comes with that one request and with no findings.
C10_OneRequestBySnapshot ==
    /\ Len(requests) <= 1
    /\ appConfig.apiBase = Null =>
        /\ requests = <<>>
        /\ ~Pending
        /\ Returned => ~HasError(result)
    /\ (appConfig.apiBase # Null /\ pc # "idle") =>
        /\ Len(requests) = 1
        /\ requests[1].method = "POST"
        /\ requests[1].url = appConfig.apiBase.v \o <<"/","a","n","a","l","y","z","e">>
    /\ (Returned /\ HasError(result)) =>
        /\ Len(requests) = 1
        /\ result.findings = <<>>

\* a connected call has failed on the transport, the environment now
\* names no backend, and the one request stands
C10_Witness ==
    /\ Returned
    /\ appConfig.apiBase # Null
    /\ env = IdleEnv
    /\ HasError(result)
    /\ "code" \in DOMAIN result.error
    /\ result.error.code = "NETWORK_ERROR"
    /\ Len(requests) = 1

---------------------------------------------------------------------------
(* Properties of mapFinding, normalizeResponse and mockAnalyze (PureSpec). *)

Applied(f) == fn = f /\ output # NoResult

\* C6: a mapped finding has lineStart >= 1 and lineEnd >= lineStart, and
\* with lineEnd and endLine absent its lineEnd is its lineStart.
C6_LineRange ==
    Applied("mapFinding") =>
        /\ output.lineStart >= 1
        /\ output.lineEnd >= output.lineStart
        /\ (Nullish(Get(input, "lineEnd")) /\ Nullish(Get(input, "endLine")))
            => output.lineEnd = output.lineStart

\* the raw findings array normalizeResponse maps for the payload
C7_RawFindings ==
    LET alt == Or(Or(Or(Get(input, "issues"), Get(input, "results")), Get(input, "findings")),
                  Arr(<<>>))
    IN  IF ~Truthy(input) THEN <<>>
        ELSE IF IsArray(Get(input, "findings")) THEN Get(input, "findings").v
        ELSE IF IsArray(alt) THEN alt.v
        ELSE <<>>

\* the upstream identity of a raw finding: the first defined of id, ruleId, rule
C7_UpstreamId(raw) ==
    Coalesce(Coalesce(Get(raw, "id"), Get(raw, "ruleId")), Get(raw, "rule"))

\* C7: within one response (demo or normalized) each id is the first
\* defined of the raw id, ruleId, rule, and no two findings share an id.
C7_UniqueIds ==
    /\ Applied("normalizeResponse") =>
        \A i \in 1..Len(output.findings) :
            ~Nullish(C7_UpstreamId(C7_RawFindings[i]))
                => output.findings[i].id = ToString(C7_UpstreamId(C7_RawFindings[i]))
    /\ (Applied("normalizeResponse") \/ Applied("mockAnalyze")) =>
        \A i, j \in 1..Len(output.findings) :
            i # j => output.findings[i].id # output.findings[j].id

\* the count a summary holds for a severity
C8_BySeverity(summary, sev) ==
    CASE sev = <<"i","n","f","o">> -> summary.bySeverity.info
      [] sev = <<"l","o","w">> -> summary.bySeverity.low
      [] sev = <<"m","e","d","i","u","m">> -> summary.bySeverity.medium
      [] sev = <<"h","i","g","h">> -> summary.bySeverity.high
      [] sev = <<"c","r","i","t","i","c","a","l">> -> summary.bySeverity.critical

\* the payload brings a summary object that normalizeResponse takes over
C8_UpstreamSummary ==
    /\ input.k = "obj"
    /\ IsArray(Get(input, "findings"))
    /\ Get(input, "summary").k \in {"obj", "arr"}

C8_ComputedInternally ==
    \/ Applied("mockAnalyze")
    \/ Applied("normalizeResponse") /\ ~C8_UpstreamSummary

\* C8: a summary computed internally has total = number of findings, a
\* count for each of the five severities equal to the number of findings
\* of that severity, and counts that add up to total.
C8_SummaryCounts ==
    C8_ComputedInternally =>
        LET f == output.findings
            s == output.summary
            n(sev) == Cardinality({i \in 1..Len(f) : f[i].severity = sev})
        IN  /\ s.total = Num(Len(f))
            /\ DOMAIN s.bySeverity = {"info", "low", "medium", "high", "critical"}
            /\ \A sev \in {<<"i","n","f","o">>, <<"l","o","w">>, <<"m","e","d","i","u","m">>, <<"h","i","g","h">>, <<"c","r","i","t","i","c","a","l">>} :
                C8_BySeverity(s, sev) = Num(n(sev))
            /\ s.bySeverity.info.v + s.bySeverity.low.v + s.bySeverity.medium.v
                + s.bySeverity.high.v + s.bySeverity.critical.v = Len(f)

\* two findings under an alternate key, one of them critical, summarized
C8_Witness ==
    /\ Applied("normalizeResponse")
    /\ ~C8_UpstreamSummary
    /\ ~IsArray(Get(input, "findings"))
    /\ Len(output.findings) = 2
    /\ output.summary.bySeverity.critical = Num(1)
    /\ output.summary.bySeverity.info = Num(1)

\* what each snippet of DemoSnippets holds, read off the snippet by hand:
\* todo (the letters t, o, d, o in a row, any case), eval (the word eval,
\* optional white space, an opening parenthesis), secret (password, =, a
\* quoted non-empty text on one line), var (the word var)
C9_Holds ==
    << {}, {}, {}, {},
       {"todo"}, {"todo"},
       {"eval"}, {"eval"}, {}, {}, {"eval"}, {},
       {"secret"}, {"secret"}, {}, {}, {},
       {"var"}, {}, {"var"},
       {"todo", "eval", "secret", "var"},
       {"todo", "eval", "secret"} >>

\* the languages of DemoLanguages that contain js, in any case
C9_JsLanguages == {<<"j","s">>, <<"N","o","d","e","J","S">>}

\* the checks in their fixed order, with the severity and rule of each
C9_Checks ==
    << [check |-> "todo", severity |-> <<"i","n","f","o">>, rule |-> <<"s","t","y","l","e","/","t","o","d","o","-","c","o","m","m","e","n","t">>],
       [check |-> "eval", severity |-> <<"h","i","g","h">>, rule |-> <<"s","e","c","u","r","i","t","y","/","n","o","-","e","v","a","l">>],
       [check |-> "secret", severity |-> <<"c","r","i","t","i","c","a","l">>, rule |-> <<"s","e","c","u","r","i","t","y","/","n","o","-","h","a","r","d","c","o","d","e","d","-","s","e","c","r","e","t","s">>],
       [check |-> "var", severity |-> <<"l","o","w">>, rule |-> <<"s","t","y","l","e","/","n","o","-","v","a","r">>] >>

RECURSIVE C9_Select(_, _)
C9_Select(checks, fired) ==
    IF checks = <<>> THEN <<>>
    ELSE (IF Head(checks).check \in fired THEN <<Head(checks)>> ELSE <<>>)
         \o C9_Select(Tail(checks), fired)

\* the checks that fire on the input, by C9_Holds
C9_Fired ==
    LET i == CHOOSE k \in 1..Len(DemoSnippets) : DemoSnippets[k] = input.snip
    IN  {c \in C9_Holds[i] : c = "var" => input.lang \in C9_JsLanguages}

\* C9: the demo findings are one per check that fires, in the order todo,
\* eval, secret, var, each check deciding alone; with no check firing there
\* is exactly the one info "no issues detected" finding; all are on line 1.
C9_DemoFindings ==
    Applied("mockAnalyze") =>
        LET f == output.findings
            expected == C9_Select(C9_Checks, C9_Fired)
        IN  /\ Len(f) >= 1
            /\ \A i \in 1..Len(f) : f[i].lineStart = 1 /\ f[i].lineEnd = 1
            /\ IF expected = <<>>
               THEN /\ Len(f) = 1
                    /\ f[1].severity = <<"i","n","f","o">>
                    /\ Includes(ToLowerCase(f[1].title), <<"n","o"," ","i","s","s","u","e","s"," ","d","e","t","e","c","t","e","d">>)
               ELSE /\ Len(f) = Len(expected)
                    /\ \A i \in 1..Len(f) :
                        /\ f[i].severity = expected[i].severity
                        /\ f[i].rule = expected[i].rule

\* all four checks have fired on one snippet
C9_Witness ==
    /\ Applied("mockAnalyze")
    /\ Len(output.findings) = 4
    /\ output.findings[1].rule = <<"s","t","y","l","e","/","t","o","d","o","-","c","o","m","m","e","n","t">>
    /\ output.findings[4].severity = <<"l","o","w">>

===========================================================================
